---- MODULE Spec2Model ----
\* A model of src/src/async/mem_map.rs: the lifecycle of one MemMap (a mapped
\* memory region), its unmap command builder MemUnmapCmd, and the part of the
\* OpenCL substrate (command queue, events, event callbacks) the region talks to.
EXTENDS Integers, Sequences, FiniteSets, TLC

\* ---------------------------------------------------------------------------
\* Bounds of the model
\* ---------------------------------------------------------------------------
\* Largest element count (`len`) a region is constructed with.
MaxLen == 1
\* Number of public operations (enqueue_unmap, enq, deref, drop) in one run.
MaxOps == 3

\* ---------------------------------------------------------------------------
\* Option<T>: None is the empty sequence, Some(x) the one-element sequence.
\* ---------------------------------------------------------------------------
None == << >>
Some(x) == << x >>
IsSome(o) == o # None
\* Option::and: None when the receiver is None, otherwise the argument.
OptAnd(a, b) == IF a = None THEN None ELSE b
\* Option::unwrap_or
UnwrapOr(o, d) == IF o = None THEN d ELSE o[1]

\* The event wait lists a caller can hand over (EventList values).
WaitLists == { << >>, << "e1" >> }
\* The region's own queue and the queue a caller may name for one call.
OwnQueue == "q_own"
OtherQueue == "q_other"
\* The unmap target event (a user event owned by the caller of the map command).
TargetEvent == "target"

VARIABLES
    regime,              \* "deferred" or "blocking": cfg!(feature = "async_block")
    len,                 \* MemMap.len
    unmap_wait_list,     \* MemMap.unmap_wait_list : Option<EventList>
    unmap_target_event,  \* MemMap.unmap_target_event : Option<Event>
    callback_is_set,     \* MemMap.callback_is_set
    is_unmapped,         \* MemMap.is_unmapped
    alive,               \* FALSE once Drop::drop has been entered
    pc,                  \* caller thread: "idle", "blocked" (in wait_for), "trapped" (panic)
    builder,             \* Option<MemUnmapCmd>: [queue, ewait, enew]
    calls,               \* every native unmap call issued, in order (recording substrate)
    next_ev,             \* number of events the substrate has created
    completed,           \* the created events whose command has completed on the device
    callbacks,           \* native callbacks registered: [ev, data]
    fired,               \* callbacks the driver has run
    waiting,             \* Option<event>: the event the caller thread is blocked on
    target_completions,  \* number of times the target event was set complete
    enew_dest,           \* Option<event>: content of the caller's new-event destination
    origin_holders,      \* who holds a reference to the fresh event: "frame", "enew", "callback"
    target_raw,          \* raw references to the target event (into_raw) not yet reconstructed
    view,                \* Option<length>: the slice handed out by the last typed access
    result,              \* what the caller observed from the last public operation
    last_op,             \* the last public operation and its arguments
    nops                 \* number of public operations so far

vars == << regime, len, unmap_wait_list, unmap_target_event, callback_is_set,
           is_unmapped, alive, pc, builder, calls, next_ev, completed, callbacks,
           fired, waiting, target_completions, enew_dest, origin_holders,
           target_raw, view, result, last_op, nops >>

\* The fields MemMap::new fixes for the region's lifetime.
fixed == << regime, len, unmap_wait_list, unmap_target_event >>
\* The substrate and everything the caller can observe of it.
substrate == << calls, next_ev, completed, callbacks, fired, waiting,
                target_completions, enew_dest, origin_holders, target_raw >>

NoOp == [op |-> "new", queue |-> None, ewait |-> None, enew |-> None]

\* MemMap::new
Init ==
    /\ regime \in {"deferred", "blocking"}
    /\ len \in 0..MaxLen
    /\ unmap_wait_list \in {None} \cup { Some(l) : l \in WaitLists }
    /\ unmap_target_event \in {None, Some(TargetEvent)}
    /\ callback_is_set = FALSE
    /\ is_unmapped = FALSE
    /\ alive = TRUE
    /\ pc = "idle"
    /\ builder = None
    /\ calls = << >>
    /\ next_ev = 0
    /\ completed = {}
    /\ callbacks = {}
    /\ fired = {}
    /\ waiting = None
    /\ target_completions = 0
    /\ enew_dest = None
    /\ origin_holders = {}
    /\ target_raw = 0
    /\ view = None
    /\ result = "None"
    /\ last_op = NoOp
    /\ nops = 0

\* ---------------------------------------------------------------------------
\* MemMap::enqueue_unmap and its helpers
\* ---------------------------------------------------------------------------
\* Mutant: the guard is missing.
NotYetUnmappedUnguarded == TRUE

\* `if !self.is_unmapped`: the guard of the whole unmap path.
NotYetUnmapped == ~is_unmapped

\* Mutant: the assertion is missing.
WaitListConflictIgnored(ewait_opt) == FALSE

\* The condition the wait-list assertion rejects.
WaitListConflict(ewait_opt) == IsSome(ewait_opt) /\ IsSome(unmap_wait_list)

\* Mutant: an event is requested only for the target event.
NeedsOriginEventForTargetOnly(enew_opt) == IsSome(unmap_target_event)

\* Whether a fresh `origin_event` is requested from the substrate.
NeedsOriginEvent(enew_opt) == IsSome(unmap_target_event) \/ IsSome(enew_opt)

\* `queue.unwrap_or(&self.queue)`
NativeQueue(queue) == UnwrapOr(queue, OwnQueue)

\* `ewait_opt.and(self.unmap_wait_list.as_ref())`
NativeWaitList(ewait_opt) == OptAnd(ewait_opt, unmap_wait_list)

\* Mutants: the flag is set before the native call's result is looked at;
\* the flag is never set.
UnmappedAfterEager(accepted) == TRUE
UnmappedAfterForgotten(accepted) == is_unmapped

\* The flag after the native call: `?` returns before `self.is_unmapped = true`
\* when the command was rejected.
UnmappedAfter(accepted) == IF accepted THEN TRUE ELSE is_unmapped

\* Mutant: the destination is given an event of its own.
CloneFromOther(origin_event) == origin_event + 1

\* `enew.clone_from(&origin_event)`: the destination refers to the same event.
CloneFrom(origin_event) == origin_event

\* Mutants: the blocking version is compiled in under both configurations;
\* the callback version is.
AsyncVersionNever == FALSE
AsyncVersionAlways == TRUE

\* `cfg!(not(feature = "async_block"))`
AsyncVersion == regime = "deferred"

\* Mutant: the `callback_is_set` guard is missing.
register_event_trigger_unguarded(unmapped_now, event, cb_ok) ==
    IF ~(unmapped_now /\ IsSome(unmap_target_event))
    THEN [ret |-> "Panic", set |-> callback_is_set, cbs |-> callbacks]
    ELSE IF cb_ok
    THEN [ret |-> "Ok", set |-> TRUE,
          cbs |-> callbacks \cup {[ev |-> event, data |-> unmap_target_event[1]]}]
    ELSE [ret |-> "SubstrateErr", set |-> callback_is_set, cbs |-> callbacks]

\* MemMap::register_event_trigger, as the values it leaves behind.
\* `unmapped_now` is self.is_unmapped at the time of the call.
register_event_trigger(unmapped_now, event, cb_ok) ==
    IF ~(unmapped_now /\ IsSome(unmap_target_event))
    THEN [ret |-> "Panic", set |-> callback_is_set, cbs |-> callbacks]
    ELSE IF ~callback_is_set
    THEN IF IsSome(unmap_target_event)
         THEN IF cb_ok
              THEN [ret |-> "Ok", set |-> TRUE,
                    cbs |-> callbacks \cup {[ev |-> event, data |-> unmap_target_event[1]]}]
              ELSE [ret |-> "SubstrateErr", set |-> callback_is_set, cbs |-> callbacks]
         ELSE [ret |-> "Panic", set |-> callback_is_set, cbs |-> callbacks]
    ELSE [ret |-> "CallbackAlreadySet", set |-> callback_is_set, cbs |-> callbacks]

\* Mutant: the wait is skipped.
WaitSkipped(event) == TRUE

\* `origin_event.wait_for()` returns Ok only once the event is complete.
WaitSatisfied(event) == event \in completed

\* Mutant: drop unwraps the result instead of discarding it.
DropUnwrap(r) == IF r = "Ok" THEN "Unit" ELSE "Panic"

\* `.ok()` in Drop::drop: the result of enqueue_unmap is discarded.
DropOk(r) == "Unit"

\* What the caller observes of enqueue_unmap's return value r: the value
\* itself, or, in Drop::drop, what `.ok()` leaves (a panic or a thread still
\* blocked is not a value `.ok()` sees).
Return(r, in_drop) == IF in_drop /\ r \notin {"Pending", "Panic"} THEN DropOk(r) ELSE r

\* `ev.clone().into_raw()` runs before `set_callback(..)?`: a raw reference to
\* the target event exists whenever register_event_trigger got that far.
TargetRawTaken(r) == r \in {"Ok", "SubstrateErr"}

\* `::std::mem::forget(origin_event)` is reached only past the `?` of the
\* registration; otherwise origin_event is dropped on return.
OriginForgotten(r) == r = "Ok"

\* The references to the fresh event once enqueue_unmap has returned or
\* blocked: the destination's clone, and the one origin_event held.
HoldersAfter(enew_opt, kept) ==
    (IF IsSome(enew_opt) THEN {"enew"} ELSE {}) \cup kept

\* MemMap::enqueue_unmap up to its return or to the point where it blocks in
\* wait_for. native_ok: the substrate accepts the unmap command; cb_ok: the
\* substrate accepts the callback registration.
enqueue_unmap(queue, ewait_opt, enew_opt, native_ok, cb_ok, in_drop) ==
    IF NotYetUnmapped
    THEN IF WaitListConflict(ewait_opt)
         THEN /\ result' = Return("Panic", in_drop)
              /\ pc' = "trapped"
              /\ UNCHANGED << is_unmapped, callback_is_set, substrate >>
         ELSE LET want == NeedsOriginEvent(enew_opt)
                  origin_event == next_ev + 1
                  flag == UnmappedAfter(native_ok)
                  call == [queue |-> NativeQueue(queue),
                           wait |-> NativeWaitList(ewait_opt),
                           want_ev |-> want,
                           accepted |-> native_ok,
                           ev |-> IF want /\ native_ok THEN Some(origin_event) ELSE None]
              IN  /\ calls' = Append(calls, call)
                  /\ is_unmapped' = flag
                  /\ UNCHANGED << completed, fired, target_completions >>
                  /\ IF ~native_ok
                     THEN /\ result' = Return("SubstrateErr", in_drop)
                          /\ pc' = "idle"
                          /\ UNCHANGED << callback_is_set, next_ev, callbacks,
                                          waiting, enew_dest, origin_holders,
                                          target_raw >>
                     ELSE IF want
                     THEN /\ next_ev' = origin_event
                          /\ enew_dest' = IF IsSome(enew_opt)
                                          THEN Some(CloneFrom(origin_event))
                                          ELSE enew_dest
                          /\ IF AsyncVersion
                             THEN IF IsSome(unmap_target_event)
                                  THEN LET r == register_event_trigger(flag, origin_event, cb_ok)
                                       IN  /\ result' = Return(r.ret, in_drop)
                                           /\ pc' = IF r.ret = "Panic" THEN "trapped" ELSE "idle"
                                           /\ callback_is_set' = r.set
                                           /\ callbacks' = r.cbs
                                           /\ target_raw' = IF TargetRawTaken(r.ret)
                                                             THEN target_raw + 1
                                                             ELSE target_raw
                                           /\ origin_holders' =
                                                 HoldersAfter(enew_opt,
                                                    IF OriginForgotten(r.ret)
                                                    THEN {"callback"} ELSE {})
                                           /\ UNCHANGED waiting
                                  ELSE /\ result' = Return("Ok", in_drop)
                                       /\ pc' = "idle"
                                       /\ origin_holders' = HoldersAfter(enew_opt, {})
                                       /\ UNCHANGED << callback_is_set, callbacks, waiting,
                                                       target_raw >>
                             ELSE IF IsSome(unmap_target_event)
                                  THEN /\ result' = Return("Pending", in_drop)
                                       /\ pc' = "blocked"
                                       /\ waiting' = Some(origin_event)
                                       /\ origin_holders' = HoldersAfter(enew_opt, {"frame"})
                                       /\ UNCHANGED << callback_is_set, callbacks, target_raw >>
                                  ELSE /\ result' = Return("Ok", in_drop)
                                       /\ pc' = "idle"
                                       /\ origin_holders' = HoldersAfter(enew_opt, {})
                                       /\ UNCHANGED << callback_is_set, callbacks, waiting,
                                                       target_raw >>
                     ELSE /\ result' = Return("Ok", in_drop)
                          /\ pc' = "idle"
                          /\ UNCHANGED << callback_is_set, next_ev, callbacks,
                                          waiting, enew_dest, origin_holders,
                                          target_raw >>
    ELSE /\ result' = Return("AlreadyUnmapped", in_drop)
         /\ pc' = "idle"
         /\ UNCHANGED << is_unmapped, callback_is_set, substrate >>

\* The caller may start a public operation on the region.
CallerFree == alive /\ pc = "idle" /\ builder = None /\ nops < MaxOps

\* A direct call of MemMap::enqueue_unmap.
EnqueueUnmapCall(queue, ewait_opt, enew_opt, native_ok, cb_ok) ==
    /\ CallerFree
    /\ enqueue_unmap(queue, ewait_opt, enew_opt, native_ok, cb_ok, FALSE)
    /\ last_op' = [op |-> "enqueue_unmap", queue |-> queue, ewait |-> ewait_opt,
                   enew |-> enew_opt]
    /\ nops' = nops + 1
    /\ UNCHANGED << fixed, alive, builder, view >>

\* The blocking version, after wait_for: `origin_event.wait_for()?` and
\* `um_tar.set_complete()?`, then the return to the caller (or to drop).
WaitReturn(wait_ok, set_ok) ==
    /\ pc = "blocked"
    /\ wait_ok => WaitSatisfied(waiting[1])
    /\ target_completions' = IF wait_ok /\ set_ok
                             THEN target_completions + 1
                             ELSE target_completions
    /\ result' = Return(IF wait_ok /\ set_ok THEN "Ok" ELSE "SubstrateErr", ~alive)
    /\ pc' = "idle"
    /\ waiting' = None
    /\ origin_holders' = origin_holders \ {"frame"}
    /\ UNCHANGED << fixed, callback_is_set, is_unmapped, alive, builder, calls,
                    next_ev, completed, callbacks, fired, enew_dest, target_raw,
                    view, last_op, nops >>

\* ---------------------------------------------------------------------------
\* Typed access: Deref::deref and DerefMut::deref_mut
\* ---------------------------------------------------------------------------
\* Mutant: the assertion is missing.
DerefUnchecked == TRUE

\* `assert!(!self.is_unmapped, ...)`
DerefAllowed == ~is_unmapped

\* `self.core.as_slice(self.len)` / `as_slice_mut(self.len)`
AsSlice == len

Deref(mutable) ==
    /\ CallerFree
    /\ IF DerefAllowed
       THEN /\ view' = Some(AsSlice)
            /\ result' = "Ok"
            /\ pc' = "idle"
       ELSE /\ view' = None
            /\ result' = "Panic"
            /\ pc' = "trapped"
    /\ last_op' = [op |-> IF mutable THEN "deref_mut" ELSE "deref",
                   queue |-> None, ewait |-> None, enew |-> None]
    /\ nops' = nops + 1
    /\ UNCHANGED << fixed, callback_is_set, is_unmapped, alive, builder,
                    substrate >>

\* ---------------------------------------------------------------------------
\* Drop for MemMap (at scope exit, or while a panic unwinds)
\* ---------------------------------------------------------------------------
\* `if !self.is_unmapped`
DropNeedsUnmap == ~is_unmapped

Drop(native_ok, cb_ok) ==
    /\ alive
    /\ pc \in {"idle", "trapped"}
    /\ builder = None
    /\ nops < MaxOps
    /\ alive' = FALSE
    /\ IF DropNeedsUnmap
       THEN enqueue_unmap(None, None, None, native_ok, cb_ok, TRUE)
       ELSE /\ result' = "Unit"
            /\ pc' = "idle"
            /\ UNCHANGED << callback_is_set, is_unmapped, substrate >>
    /\ last_op' = [op |-> "drop", queue |-> None, ewait |-> None, enew |-> None]
    /\ nops' = nops + 1
    /\ UNCHANGED << fixed, builder, view >>

\* ---------------------------------------------------------------------------
\* MemUnmapCmd, the unmap command builder
\* ---------------------------------------------------------------------------
\* MemUnmapCmd::new
NewCmd == [queue |-> None, ewait |-> None, enew |-> None]

BuilderFrame == << fixed, callback_is_set, is_unmapped, alive, pc, substrate,
                   view, result, last_op, nops >>

\* MemMap::unmap
Unmap ==
    /\ CallerFree
    /\ builder' = Some(NewCmd)
    /\ UNCHANGED BuilderFrame

\* MemUnmapCmd::queue
CmdQueue(q) ==
    /\ IsSome(builder)
    /\ builder' = Some([builder[1] EXCEPT !.queue = Some(q)])
    /\ UNCHANGED BuilderFrame

\* MemUnmapCmd::ewait
CmdEwait(l) ==
    /\ IsSome(builder)
    /\ builder' = Some([builder[1] EXCEPT !.ewait = Some(l)])
    /\ UNCHANGED BuilderFrame

\* MemUnmapCmd::ewait_opt
CmdEwaitOpt(o) ==
    /\ IsSome(builder)
    /\ builder' = Some([builder[1] EXCEPT !.ewait = o])
    /\ UNCHANGED BuilderFrame

\* MemUnmapCmd::enew
CmdEnew(d) ==
    /\ IsSome(builder)
    /\ builder' = Some([builder[1] EXCEPT !.enew = Some(d)])
    /\ UNCHANGED BuilderFrame

\* MemUnmapCmd::enew_opt
CmdEnewOpt(o) ==
    /\ IsSome(builder)
    /\ builder' = Some([builder[1] EXCEPT !.enew = o])
    /\ UNCHANGED BuilderFrame

\* The builder goes out of scope without `enq` (#[must_use] only warns).
CmdDiscard ==
    /\ IsSome(builder)
    /\ builder' = None
    /\ UNCHANGED BuilderFrame

\* Mutant: enq forgets the queue it was configured with.
EnqWithoutQueue(native_ok, cb_ok) ==
    /\ IsSome(builder)
    /\ alive /\ pc = "idle" /\ nops < MaxOps
    /\ enqueue_unmap(None, builder[1].ewait, builder[1].enew, native_ok, cb_ok, FALSE)
    /\ builder' = None
    /\ last_op' = [op |-> "enq", queue |-> builder[1].queue,
                   ewait |-> builder[1].ewait, enew |-> builder[1].enew]
    /\ nops' = nops + 1
    /\ UNCHANGED << fixed, alive, view >>

\* MemUnmapCmd::enq
Enq(native_ok, cb_ok) ==
    /\ IsSome(builder)
    /\ alive /\ pc = "idle" /\ nops < MaxOps
    /\ enqueue_unmap(builder[1].queue, builder[1].ewait, builder[1].enew,
                     native_ok, cb_ok, FALSE)
    /\ builder' = None
    /\ last_op' = [op |-> "enq", queue |-> builder[1].queue,
                   ewait |-> builder[1].ewait, enew |-> builder[1].enew]
    /\ nops' = nops + 1
    /\ UNCHANGED << fixed, alive, view >>

\* ---------------------------------------------------------------------------
\* The substrate: the device completes commands, the driver runs callbacks
\* ---------------------------------------------------------------------------
\* The device finishes the unmap command: its event becomes complete.
DeviceComplete(e) ==
    /\ e \in (1..next_ev) \ completed
    /\ completed' = completed \cup {e}
    /\ UNCHANGED << fixed, callback_is_set, is_unmapped, alive, pc, builder,
                    calls, next_ev, callbacks, fired, waiting,
                    target_completions, enew_dest, origin_holders, target_raw,
                    view, result, last_op, nops >>

\* The driver thread runs `core::_complete_user_event` with the target event as
\* its user data, once the event it was registered on is complete: the raw
\* target reference is reconstructed, the target set complete, and the
\* forgotten origin_event reference is dropped there (comment of lines 163-165).
CallbackRun(cb) ==
    /\ cb \in callbacks \ fired
    /\ cb.ev \in completed
    /\ fired' = fired \cup {cb}
    /\ target_completions' = target_completions + 1
    /\ target_raw' = target_raw - 1
    /\ origin_holders' = origin_holders \ {"callback"}
    /\ UNCHANGED << fixed, callback_is_set, is_unmapped, alive, pc, builder,
                    calls, next_ev, completed, callbacks, waiting, enew_dest,
                    view, result, last_op, nops >>

Queues == {None, Some(OtherQueue)}
EwaitOpts == {None} \cup { Some(l) : l \in WaitLists }
EnewOpts == {None, Some("dest")}

Next ==
    \/ \E q \in Queues, w \in EwaitOpts, n \in EnewOpts, a \in BOOLEAN, c \in BOOLEAN :
          EnqueueUnmapCall(q, w, n, a, c)
    \/ \E a \in BOOLEAN, c \in BOOLEAN : WaitReturn(a, c)
    \/ \E m \in BOOLEAN : Deref(m)
    \/ \E a \in BOOLEAN, c \in BOOLEAN : Drop(a, c)
    \/ Unmap
    \/ CmdQueue(OtherQueue)
    \/ \E l \in WaitLists : CmdEwait(l)
    \/ \E o \in EwaitOpts : CmdEwaitOpt(o)
    \/ CmdEnew("dest")
    \/ \E o \in EnewOpts : CmdEnewOpt(o)
    \/ CmdDiscard
    \/ \E a \in BOOLEAN, c \in BOOLEAN : Enq(a, c)
    \/ \E e \in 1..(MaxOps + 1) : DeviceComplete(e)
    \/ \E e \in 1..(MaxOps + 1) : CallbackRun([ev |-> e, data |-> TargetEvent])

Spec == Init /\ [][Next]_vars

\* The substrate's progress: the device completes every event it created, the
\* driver runs every callback whose event is complete, and a wait_for the
\* caller is blocked in returns (with Ok once the event is complete, or with
\* an error).
Fairness ==
    /\ WF_vars(\E e \in 1..(MaxOps + 1) : DeviceComplete(e))
    /\ WF_vars(\E e \in 1..(MaxOps + 1) : CallbackRun([ev |-> e, data |-> TargetEvent]))
    /\ WF_vars(\E a \in BOOLEAN, c \in BOOLEAN : WaitReturn(a, c))

LiveSpec == Init /\ [][Next]_vars /\ Fairness

\* ---------------------------------------------------------------------------
\* Properties
\* ---------------------------------------------------------------------------
\* The native unmap commands the substrate accepted.
AcceptedCalls == { i \in 1..Len(calls) : calls[i].accepted }
RejectedCalls == { i \in 1..Len(calls) : ~calls[i].accepted }
AcceptedCount == Cardinality(AcceptedCalls)
UnmapOps == {"enqueue_unmap", "enq"}
AccessOps == {"deref", "deref_mut"}
\* The step is a public operation of the given kinds.
Did(ops) == nops' # nops /\ last_op'.op \in ops

\* C1: once an unmap command was accepted is_unmapped() is true and typed
\* access (deref, deref_mut) traps; while is_unmapped() is false typed access
\* succeeds with a view of exactly `len` elements.
C1_AccessOnlyWhileMapped ==
    /\ AcceptedCount > 0 => is_unmapped
    /\ last_op.op \in AccessOps =>
          IF is_unmapped
          THEN result = "Panic" /\ pc = "trapped" /\ view = None
          ELSE result = "Ok" /\ view = Some(len)

C1_Witness ==
    /\ AcceptedCount = 1
    /\ last_op.op \in AccessOps
    /\ result = "Panic"

\* C2: whatever the sequence of enqueue_unmap calls, builder submissions and
\* the drop, with failures among them, the substrate accepts at most one unmap
\* command for the region.
C2_NeverDoubleUnmapped == AcceptedCount <= 1

C2_Witness ==
    /\ AcceptedCount = 1
    /\ RejectedCalls # {}
    /\ last_op.op = "drop"
    /\ \E i \in RejectedCalls : \E j \in AcceptedCalls : i < j

\* C3: enqueue_unmap on an already unmapped region returns "already unmapped",
\* issues no native command and changes neither a field of the region nor the
\* destination handed in.
C3_AlreadyUnmappedIsInert ==
    [][ (is_unmapped /\ Did(UnmapOps)) =>
           /\ result' = "AlreadyUnmapped"
           /\ pc' = "idle"
           /\ UNCHANGED << fixed, callback_is_set, is_unmapped, substrate >> ]_vars

C3_Witness ==
    /\ result = "AlreadyUnmapped"
    /\ IsSome(last_op.enew)
    /\ enew_dest = None

\* C4: is_unmapped is false at construction, is never set back to false, and
\* becomes true only in a step in which the substrate accepts an unmap command.
C4_UnmappedMonotonic ==
    [][ /\ is_unmapped => is_unmapped'
        /\ (~is_unmapped /\ is_unmapped') =>
              /\ Len(calls') = Len(calls) + 1
              /\ calls'[Len(calls')].accepted
        /\ nops = 0 => ~is_unmapped ]_vars

C4_Witness ==
    /\ is_unmapped
    /\ RejectedCalls # {}
    /\ result = "AlreadyUnmapped"

\* The wait list the unmap command is meant to wait on.
ApplicableWaitList(ewait_opt) ==
    IF IsSome(ewait_opt) THEN ewait_opt ELSE unmap_wait_list

\* C5: every native unmap command is issued with the wait list that applies:
\* the per-call list when one is given, else the list set at construction,
\* and no wait list only when neither is set.
C5_WaitListApplied ==
    [][ calls' # calls =>
           calls'[Len(calls')].wait = ApplicableWaitList(last_op'.ewait) ]_vars

\* C6: an unmap with a per-call wait list on a mapped region constructed with
\* a wait list traps before any native call: no command, no event, the flags
\* stay false.
C6_ConflictTrapsBeforeNativeCall ==
    [][ (Did(UnmapOps) /\ ~is_unmapped /\ IsSome(last_op'.ewait)
            /\ IsSome(unmap_wait_list)) =>
           /\ result' = "Panic"
           /\ pc' = "trapped"
           /\ calls' = calls
           /\ next_ev' = next_ev
           /\ ~is_unmapped'
           /\ ~callback_is_set' ]_vars

C6_Witness ==
    /\ last_op.op \in UnmapOps
    /\ result = "Panic"
    /\ IsSome(last_op.ewait) /\ IsSome(unmap_wait_list)
    /\ ~is_unmapped

\* The event of the accepted unmap command (None when none was requested).
AcceptedEvent == calls[CHOOSE i \in AcceptedCalls : TRUE].ev

\* C7: in the blocking version, with a target event, enqueue_unmap / enq has
\* returned Ok only if the command's fresh event was seen complete, and the
\* target event is then already set complete.
C7_BlockingReturnsAfterCompletion ==
    (regime = "blocking" /\ IsSome(unmap_target_event)
        /\ last_op.op \in UnmapOps /\ result = "Ok") =>
       /\ AcceptedCount = 1
       /\ IsSome(AcceptedEvent)
       /\ AcceptedEvent[1] \in completed
       /\ target_completions = 1
       /\ pc = "idle"

C7_Witness ==
    /\ regime = "blocking" /\ IsSome(unmap_target_event)
    /\ last_op.op \in UnmapOps /\ result = "Ok"

\* C8: in the deferred version, with a target event, the caller never blocks;
\* the target event is set complete only by the callback registered on the
\* fresh event, run after that event is complete, and at most once.
C8_DeferredCompletesByCallbackOnce ==
    (regime = "deferred" /\ IsSome(unmap_target_event)) =>
       /\ pc # "blocked"
       /\ target_completions <= 1
       /\ target_completions = Cardinality(fired)
       /\ \A cb \in fired : cb.ev \in completed /\ cb \in callbacks
       /\ \A cb \in callbacks : Some(cb.ev) = AcceptedEvent /\ cb.data = TargetEvent

C8_Witness ==
    /\ regime = "deferred" /\ IsSome(unmap_target_event)
    /\ last_op.op \in UnmapOps /\ result = "Ok"
    /\ completed # {}
    /\ target_completions = 0

\* C9: drop of a mapped region issues exactly one unmap command, on the
\* region's own queue and with no destination for a new event, and shows the
\* caller no error and no trap even when the command is rejected; drop of an
\* unmapped region issues none.
C9_DropUnmapsOnceSilently ==
    [][ /\ Did({"drop"}) =>
           /\ result' \in {"Unit", "Pending"}
           /\ pc' # "trapped"
           /\ IF ~is_unmapped
              THEN /\ Len(calls') = Len(calls) + 1
                   /\ SubSeq(calls', 1, Len(calls)) = calls
                   /\ calls'[Len(calls')].queue = OwnQueue
                   /\ calls'[Len(calls')].want_ev = IsSome(unmap_target_event)
                   /\ enew_dest' = enew_dest
              ELSE calls' = calls
        /\ ~alive => (result' \in {"Unit", "Pending"} /\ calls' = calls) ]_vars

C9_Witness ==
    /\ last_op.op = "drop"
    /\ result = "Unit"
    /\ Len(calls) > 0
    /\ ~calls[Len(calls)].accepted
    /\ ~is_unmapped

\* C10: an accepted unmap with a new-event destination on a region with a
\* target event creates exactly one event; the destination holds that event
\* and the completion of the target hangs on it (callback or wait).
C10_OneSharedOriginEvent ==
    (last_op.op \in UnmapOps /\ IsSome(last_op.enew) /\ IsSome(unmap_target_event)
        /\ result \in {"Ok", "Pending", "SubstrateErr"}
        /\ Len(calls) > 0 /\ calls[Len(calls)].accepted) =>
       /\ next_ev = 1
       /\ calls[Len(calls)].ev = Some(next_ev)
       /\ enew_dest = Some(next_ev)
       /\ \A cb \in callbacks : cb.ev = next_ev
       /\ (regime = "deferred" /\ result = "Ok") => callbacks = {[ev |-> next_ev, data |-> TargetEvent]}
       /\ (regime = "blocking" /\ result = "Pending") => waiting = Some(next_ev)
       /\ regime = "blocking" => callbacks = {}

C10_Witness ==
    /\ last_op.op \in UnmapOps /\ IsSome(last_op.enew) /\ IsSome(unmap_target_event)
    /\ result = "Ok"
    /\ enew_dest = Some(1)
    /\ target_completions = 1

\* The step issues a native unmap call.
Issued == Len(calls') = Len(calls) + 1
\* The native call the step has issued.
NewCall == calls'[Len(calls')]

\* C11: when the substrate rejects the unmap command enqueue_unmap returns
\* the error and the region stays mapped (flags false, access allowed, target
\* not completed, destination untouched); the next enqueue_unmap goes to the
\* substrate again instead of failing with "already unmapped".
C11_RejectedLeavesMapped ==
    [][ /\ (Issued /\ ~NewCall.accepted) =>
              /\ Did(UnmapOps) => result' = "SubstrateErr"
              /\ ~is_unmapped' /\ DerefAllowed'
              /\ ~callback_is_set'
              /\ pc' = "idle"
              /\ UNCHANGED << next_ev, completed, callbacks, fired, waiting,
                              target_completions, enew_dest >>
        /\ (Did(UnmapOps) /\ RejectedCalls # {} /\ AcceptedCalls = {}
               /\ ~WaitListConflict(last_op'.ewait)) =>
              /\ Issued
              /\ result' # "AlreadyUnmapped" ]_vars

C11_Witness ==
    /\ Cardinality(RejectedCalls) >= 2
    /\ AcceptedCalls = {}
    /\ result = "SubstrateErr"
    /\ IsSome(last_op.enew) /\ enew_dest = None
    /\ ~is_unmapped

\* C12: register_event_trigger arms the callback only while callback_is_set
\* is false; called again it returns "callback already set" and registers
\* nothing, so a region has at most one native callback; the public
\* operations never produce "callback already set".
C12_CallbackRegisteredOnce ==
    /\ Cardinality(callbacks) <= 1
    /\ callback_is_set <=> callbacks # {}
    /\ result # "CallbackAlreadySet"
    /\ callback_is_set =>
          \A cb_ok \in BOOLEAN :
             register_event_trigger(is_unmapped, next_ev, cb_ok) =
                [ret |-> "CallbackAlreadySet", set |-> TRUE, cbs |-> callbacks]
    /\ (~callback_is_set /\ is_unmapped /\ IsSome(unmap_target_event)) =>
          /\ register_event_trigger(is_unmapped, next_ev, TRUE).set
          /\ ~register_event_trigger(is_unmapped, next_ev, FALSE).set

C12_Witness ==
    /\ callback_is_set
    /\ Cardinality(callbacks) = 1
    /\ result = "AlreadyUnmapped"

\* C13: a failure after the command was accepted is returned with
\* is_unmapped already true; is_unmapped is true exactly when the substrate
\* has accepted an unmap command, whatever enqueue_unmap returned.
C13_UnmappedIffAccepted ==
    /\ is_unmapped <=> AcceptedCount >= 1
    /\ (AcceptedCount >= 1 /\ result = "SubstrateErr") => ~DerefAllowed /\ ~NotYetUnmapped

C13_Witness ==
    /\ AcceptedCount = 1
    /\ IsSome(unmap_target_event)
    /\ result = "SubstrateErr"
    /\ last_op.op \in UnmapOps
    /\ is_unmapped

\* C15: callback_is_set implies a target event and is_unmapped; it is false
\* at construction, stays false in the blocking version and without a target
\* event, and is never reset.
C15_CallbackArmedOnlyWhenUnmapped ==
    [][ /\ nops = 0 => ~callback_is_set
        /\ callback_is_set => callback_is_set'
        /\ callback_is_set' =>
              /\ IsSome(unmap_target_event)
              /\ is_unmapped'
              /\ regime = "deferred" ]_vars

C15_Witness ==
    /\ callback_is_set
    /\ ~alive
    /\ fired # {}

\* C16: a fresh event is requested exactly when the region has a target event
\* or a destination was given; with neither, no event, no callback and no
\* blocking; with a destination only, the destination receives the event and
\* the call neither blocks nor arms a callback.
C16_EventRequestedIffNeeded ==
    [][ Issued =>
           /\ NewCall.want_ev <=> (IsSome(unmap_target_event) \/ IsSome(last_op'.enew))
           /\ ~NewCall.want_ev =>
                 /\ NewCall.ev = None
                 /\ pc' = "idle"
                 /\ ~callback_is_set'
                 /\ UNCHANGED << next_ev, callbacks, waiting, enew_dest >>
           /\ (NewCall.want_ev /\ NewCall.accepted) =>
                 /\ next_ev' = next_ev + 1
                 /\ NewCall.ev = Some(next_ev')
           /\ (NewCall.accepted /\ IsSome(last_op'.enew) /\ ~IsSome(unmap_target_event)) =>
                 /\ enew_dest' = NewCall.ev
                 /\ pc' = "idle"
                 /\ result' = "Ok"
                 /\ ~callback_is_set'
                 /\ UNCHANGED << callbacks, waiting >> ]_vars

C16_Witness ==
    /\ AcceptedCount = 1
    /\ ~calls[Len(calls)].want_ev
    /\ result = "Ok"
    /\ next_ev = 0
    /\ regime = "blocking"

\* C17: drop never traps, in no state of the region: neither the wait-list
\* assertion nor the assertion or the panic of register_event_trigger fires,
\* and no error of enqueue_unmap reaches the caller.
C17_DropNeverTraps ==
    [][ (Did({"drop"}) \/ ~alive) =>
           /\ pc' # "trapped"
           /\ result' \notin {"Panic", "AlreadyUnmapped", "CallbackAlreadySet",
                              "SubstrateErr"} ]_vars

C17_Witness ==
    /\ ~alive
    /\ regime = "deferred"
    /\ IsSome(unmap_wait_list) /\ IsSome(unmap_target_event)
    /\ RejectedCalls # {}
    /\ callback_is_set
    /\ last_op.op = "drop"

\* C18: the already-unmapped check comes before the wait-list assertion: a
\* per-call wait list on an unmapped region constructed with a wait list gets
\* "already unmapped", not a trap; the assertion fires only on a mapped region.
C18_UnmappedCheckedBeforeAssertion ==
    [][ Did(UnmapOps) =>
           /\ (is_unmapped /\ WaitListConflict(last_op'.ewait)) =>
                 result' = "AlreadyUnmapped" /\ pc' = "idle"
           /\ result' = "Panic" =>
                 ~is_unmapped /\ WaitListConflict(last_op'.ewait) ]_vars

C18_Witness ==
    /\ result = "AlreadyUnmapped"
    /\ IsSome(last_op.ewait) /\ IsSome(unmap_wait_list)
    /\ pc = "idle"

\* The number of builder fields the step changes.
BuilderFieldsChanged ==
    Cardinality({ f \in {"queue", "ewait", "enew"} : builder'[1][f] # builder[1][f] })

\* C20: the builder does nothing to the region until enq: unmap() and the
\* configuration methods change only the builder (one field at a time); enq
\* consumes the builder and calls enqueue_unmap once, with the queue, wait
\* list and destination last configured, and returns its result.
C20_BuilderForwardsOnEnq ==
    [][ /\ (builder = None /\ IsSome(builder')) =>
              builder' = Some(NewCmd) /\ UNCHANGED BuilderFrame
        /\ (IsSome(builder) /\ IsSome(builder') /\ builder' # builder) =>
              BuilderFieldsChanged = 1 /\ UNCHANGED BuilderFrame
        /\ (IsSome(builder) /\ builder' = None /\ nops' # nops) =>
              /\ last_op' = [op |-> "enq", queue |-> builder[1].queue,
                             ewait |-> builder[1].ewait, enew |-> builder[1].enew]
              /\ nops' = nops + 1
              /\ Len(calls') <= Len(calls) + 1
              /\ Issued <=> (~is_unmapped /\ ~WaitListConflict(builder[1].ewait))
              /\ Issued =>
                    /\ NewCall.queue = UnwrapOr(builder[1].queue, OwnQueue)
                    /\ NewCall.want_ev <=>
                          (IsSome(unmap_target_event) \/ IsSome(builder[1].enew))
                    /\ (NewCall.accepted /\ IsSome(builder[1].enew)) =>
                          enew_dest' = NewCall.ev
                    /\ ~NewCall.accepted => result' = "SubstrateErr"
              /\ is_unmapped => result' = "AlreadyUnmapped"
              /\ result' = "Panic" <=>
                    (~is_unmapped /\ WaitListConflict(builder[1].ewait))
        /\ (IsSome(builder) /\ builder' = None /\ nops' = nops) =>
              UNCHANGED BuilderFrame ]_vars

C20_Witness ==
    /\ last_op.op = "enq"
    /\ IsSome(last_op.queue) /\ IsSome(last_op.enew)
    /\ result = "Ok"
    /\ AcceptedCount = 1
    /\ calls[Len(calls)].queue = OtherQueue

\* C19: in the deferred version the reference origin_event held passes to the
\* callback: it keeps the fresh event alive until the callback runs, is
\* released when it runs, so that only the destination's copy can remain; and
\* a failed registration leaves no reference taken for the callback unreleased.
C19_CallbackOwnsItsReferences ==
    /\ \A cb \in callbacks \ fired : "callback" \in origin_holders
    /\ fired # {} => origin_holders \subseteq {"enew"}
    /\ callbacks = {} => "callback" \notin origin_holders
    /\ target_raw = Cardinality(callbacks \ fired)

\* The target event has been set complete.
TargetComplete == target_completions >= 1

\* C14: with a target event, once the unmap command is accepted the target
\* event is eventually set complete (the device completes events, the driver
\* runs registered callbacks and a blocked wait returns).
C14_TargetEventuallyComplete ==
    (is_unmapped /\ IsSome(unmap_target_event)) ~> TargetComplete

====
